---- MODULE Spec2Model ----
(***************************************************************************)
(* Model of auto_dfu (src/main.cpp): the register/command channel of the   *)
(* HPM plug-in, device discovery (FindDevice), the DBMa handshake and DFU  *)
(* VDM (EnterDFUMode) and the session loop of main (monitoring, restore,   *)
(* post-restore wait, error backoff).                                      *)
(*                                                                         *)
(* The transport (Read/Write/Command of AppleHPMLib), the IOKit registry,  *)
(* the terminal and cfgutil are the environment: every call into them      *)
(* returns a nondeterministically chosen outcome.                          *)
(***************************************************************************)
EXTENDS Integers, Sequences, FiniteSets, TLC

\* ------------------------------------------------------------------ bounds
MaxCand  == 2     \* candidates yielded by one enumeration
MaxInput == 1     \* characters pending on stdin
MaxLeak  == 1     \* plug-in interfaces orphaned by a throwing constructor

\* ------------------------------------------------- environment value sets
Statuses    == {0, 5}            \* IOReturn: 0 success, anything else failure
ResultBytes == {0, 7, 255}       \* byte 0 of register 0x09 after a command
Chars       == {"r", "R", "x"}   \* characters typed on the terminal
RunResults  == {0, 256}          \* exit status of system("cfgutil restore")

DBMaMagic == <<"D", "B", "M", "a">>
\* Leading bytes of register 0x03 as the chip may present them.
Modes == { <<"D", "B", "M", "a", "0">>,
           <<"D", "B", "M", "a", "x">>,
           <<"D", "B", "M", "b", "0">>,
           <<"A", "P", "P", " ", "0">> }
NoMode == <<>>

\* One registry entry of class AppleHPM as FindDevice sees it.
Candidates ==
  { [hasRid |-> FALSE, rid |-> 0, bind |-> "ok",         st |-> "set"],
    [hasRid |-> TRUE,  rid |-> 1, bind |-> "ok",         st |-> "set"],
    [hasRid |-> TRUE,  rid |-> 1, bind |-> "ok",         st |-> "clear"],
    [hasRid |-> TRUE,  rid |-> 0, bind |-> "createFail", st |-> "set"],
    [hasRid |-> TRUE,  rid |-> 0, bind |-> "queryFail",  st |-> "set"],
    [hasRid |-> TRUE,  rid |-> 0, bind |-> "ok",         st |-> "set"],
    [hasRid |-> TRUE,  rid |-> 0, bind |-> "ok",         st |-> "clear"],
    [hasRid |-> TRUE,  rid |-> 0, bind |-> "ok",         st |-> "fail"] }

CandLists == UNION { [1..n -> Candidates] : n \in 0..MaxCand }

\* ------------------------------------------------------------ VDM encoding
RECURSIVE BitOr(_, _)
BitOr(a, b) ==
  IF a = 0 THEN b
  ELSE IF b = 0 THEN a
  ELSE (IF (a % 2 = 1) \/ (b % 2 = 1) THEN 1 ELSE 0) + 2 * BitOr(a \div 2, b \div 2)

\* A uint32_t is held as its two 16-bit halves, [hi, lo]: the value is
\* hi * 65536 + lo.
W(hi, lo) == [hi |-> hi, lo |-> lo]

\* put as it would be if it wrote the most significant byte first.
put32_BigEndian(val) ==
  << (val.hi \div 256) % 256, val.hi % 256, (val.lo \div 256) % 256, val.lo % 256 >>

\* put(std::ostream&, uint32_t), lines 28-33.
put32(val) ==
  << val.lo % 256, (val.lo \div 256) % 256, val.hi % 256, (val.hi \div 256) % 256 >>

put8(val) == << val % 256 >>

RECURSIVE putWords(_)
putWords(ws) == IF ws = <<>> THEN <<>> ELSE put32(Head(ws)) \o putWords(Tail(ws))

dfu == << W(1452, 32786), W(0, 262), W(32769, 0) >>   \* 0x5ac8012, 0x106, 0x80010000

VDMArgs(ws) == put8(BitOr(3 * 16, Len(ws))) \o putWords(ws)

\* --------------------------------------------------------- command channel
\* command as it would be if register 0x09 were read before the status of
\* Command is looked at.
command_ReadsFirst(cmd, args, wst, cst, rst, b0) ==
  LET w == IF args # <<>> THEN 1 ELSE 0
      base == [cmd |-> cmd, hasArgs |-> (args # <<>>), wst |-> wst, cst |-> cst,
               rst |-> rst, b0 |-> b0, writes |-> w, cmds |-> 1,
               wregs |-> IF args # <<>> THEN <<9>> ELSE <<>>]
  IN  IF rst # 0
        THEN base @@ [threw |-> TRUE, ret |-> 0, reads |-> 1, rregs |-> <<9>>]
      ELSE IF cst # 0
        THEN base @@ [threw |-> FALSE, ret |-> -1, reads |-> 1, rregs |-> <<9>>]
      ELSE base @@ [threw |-> FALSE, ret |-> b0 % 16, reads |-> 1, rregs |-> <<9>>]

\* command as it would be if the result byte were returned unmasked.
command_NoMask(cmd, args, wst, cst, rst, b0) ==
  LET w == IF args # <<>> THEN 1 ELSE 0
      base == [cmd |-> cmd, hasArgs |-> (args # <<>>), wst |-> wst, cst |-> cst,
               rst |-> rst, b0 |-> b0, writes |-> w, cmds |-> 1,
               wregs |-> IF args # <<>> THEN <<9>> ELSE <<>>]
  IN  IF cst # 0
        THEN base @@ [threw |-> FALSE, ret |-> -1, reads |-> 0, rregs |-> <<>>]
      ELSE IF rst # 0
        THEN base @@ [threw |-> TRUE, ret |-> 0, reads |-> 1, rregs |-> <<9>>]
      ELSE base @@ [threw |-> FALSE, ret |-> b0, reads |-> 1, rregs |-> <<9>>]

\* command as it would be if register 0x09 were written even for empty
\* arguments.
command_AlwaysWrites(cmd, args, wst, cst, rst, b0) ==
  LET base == [cmd |-> cmd, hasArgs |-> (args # <<>>), wst |-> wst, cst |-> cst,
               rst |-> rst, b0 |-> b0, writes |-> 1, cmds |-> 1, wregs |-> <<9>>]
  IN  IF cst # 0
        THEN base @@ [threw |-> FALSE, ret |-> -1, reads |-> 0, rregs |-> <<>>]
      ELSE IF rst # 0
        THEN base @@ [threw |-> TRUE, ret |-> 0, reads |-> 1, rregs |-> <<9>>]
      ELSE base @@ [threw |-> FALSE, ret |-> b0 % 16, reads |-> 1, rregs |-> <<9>>]

\* HPMPluginInstance::command, as a function of the statuses the transport
\* returns for Write, Command and Read and of byte 0 of register 0x09.  The
\* result records what the call did: the registers written and read, the
\* commands issued, and whether it returned (ret) or threw.
command(cmd, args, wst, cst, rst, b0) ==
  LET w == IF args # <<>> THEN 1 ELSE 0
      base == [cmd |-> cmd, hasArgs |-> (args # <<>>), wst |-> wst, cst |-> cst,
               rst |-> rst, b0 |-> b0, writes |-> w, cmds |-> 1,
               wregs |-> IF args # <<>> THEN <<9>> ELSE <<>>]
  IN  IF cst # 0
        THEN base @@ [threw |-> FALSE, ret |-> -1, reads |-> 0, rregs |-> <<>>]
      ELSE IF rst # 0
        THEN base @@ [threw |-> TRUE, ret |-> 0, reads |-> 1, rregs |-> <<9>>]
      ELSE base @@ [threw |-> FALSE, ret |-> b0 % 16, reads |-> 1, rregs |-> <<9>>]

NoCmd == [cmd |-> "none", hasArgs |-> FALSE, wst |-> 0, cst |-> 0, rst |-> 0, b0 |-> 0,
          writes |-> 0, cmds |-> 0, threw |-> FALSE, ret |-> 0, reads |-> 0,
          wregs |-> <<>>, rregs |-> <<>>]

\* ------------------------------------------------------------------- state
VARIABLES
  pc,                \* position of main / FindDevice / EnterDFUMode
  waitingShown,      \* main: bool waitingShown
  stdin,             \* characters typed and not yet read
  open,              \* plug-in interfaces created and not destroyed
  inst,              \* main: inst (0 = nullptr, else index of the device)
  fdInst,            \* FindDevice: inst of the candidate being examined
  cands, idx,        \* FindDevice: the enumeration and the iterator position
  attempt, entered,  \* EnterDFUMode: loop variable and flag
  mode,              \* EnterDFUMode: mode read in the latest attempt
  report,            \* EnterDFUMode: mode bytes printed on failure
  lastCmd,           \* outcome of the latest command() call of the session
  nDBMa, nVDMs,      \* commands issued to the transport in this session
  nWrite9, nRead3, nRead4d, \* register accesses in this session
  res,               \* EnterDFUMode: int res
  status,            \* outcome of the latest read of register 0x3f
  restore_requested, \* main: bool restore_requested
  nRestore,          \* run_restore calls in this session
  cause,             \* the input event that requested the restore
  err,               \* what() of the exception in flight to main's handler
  slept,             \* seconds main slept before the coming FindDevice call
  unreported,        \* an error was caught in this iteration of main's loop
                     \* and nothing has been printed since
  words, args,       \* EnterDFUMode: the vector dfu and the bytes of args
  rret               \* run_restore: int ret

vars == << pc, waitingShown, stdin, open, inst, fdInst, cands, idx, attempt,
           entered, mode, report, lastCmd, nDBMa, nVDMs, nWrite9, nRead3,
           nRead4d, res, status, restore_requested, nRestore, cause, err,
           slept, unreported, words, args, rret >>

findVars == << fdInst, cands, idx >>
dfuVars  == << attempt, entered, mode, report, lastCmd, nDBMa, nVDMs, nWrite9,
               nRead3, nRead4d, res, words, args >>
monVars  == << status, restore_requested, nRestore, cause, rret >>

NoCause == [ch |-> "none", live |-> FALSE]

InitBase ==
  /\ pc = "start"
  /\ waitingShown = FALSE
  /\ stdin = <<>>
  /\ open = 0
  /\ inst = 0
  /\ fdInst = 0
  /\ cands = <<>>
  /\ idx = 0
  /\ attempt = 0
  /\ entered = FALSE
  /\ mode = NoMode
  /\ report = NoMode
  /\ lastCmd = NoCmd
  /\ nDBMa = 0
  /\ nVDMs = 0
  /\ nWrite9 = 0
  /\ nRead3 = 0
  /\ nRead4d = 0
  /\ res = 0
  /\ status = "none"
  /\ restore_requested = FALSE
  /\ nRestore = 0
  /\ cause = NoCause
  /\ err = "none"
  /\ slept = 0
  /\ unreported = FALSE
  /\ args = <<>>
  /\ rret = 0

Init == InitBase /\ words = <<>>

\* The locals of one loop iteration of main, as they are when none is live.
ResetSession ==
  /\ attempt' = 0
  /\ entered' = FALSE
  /\ mode' = NoMode
  /\ report' = NoMode
  /\ lastCmd' = NoCmd
  /\ nDBMa' = 0
  /\ nVDMs' = 0
  /\ nWrite9' = 0
  /\ nRead3' = 0
  /\ nRead4d' = 0
  /\ res' = 0
  /\ status' = "none"
  /\ restore_requested' = FALSE
  /\ nRestore' = 0
  /\ cause' = NoCause
  /\ words' = <<>>
  /\ args' = <<>>
  /\ rret' = 0

\* An exception leaves the try block of main: unwinding destroys inst
\* (~HPMPluginInstance) and control reaches the handler.
Escape(what) ==
  /\ pc' = "catch"
  /\ err' = what
  /\ unreported' = TRUE
  /\ open' = IF inst # 0 THEN open - 1 ELSE open
  /\ inst' = 0

\* ------------------------------------------------------------ environment
\* A key is typed.  The terminal is in non-canonical, non-blocking mode
\* (set_nonblocking_terminal), so the character queues until read() takes it.
\* live records whether a session held a device, restore not yet requested,
\* at the moment the key was typed.
KeyPress ==
  /\ Len(stdin) < MaxInput
  /\ \E ch \in Chars :
       stdin' = Append(stdin, [ch |-> ch,
                               live |-> (inst # 0 /\ ~restore_requested)])
  /\ UNCHANGED << pc, waitingShown, open, inst, findVars, dfuVars, monVars, err,
                  slept, unreported >>

\* ----------------------------------------------------------------- startup
\* The directory states find_single_ipsw can meet: whether "ipsw" can be
\* opened and how many of its entries end in ".ipsw".
IpswCounts == 0..2

\* find_single_ipsw (lines 186-211): the path is returned when the directory
\* opens and holds exactly one firmware image; the process exits otherwise.
find_single_ipsw(dirOK, n) ==
  IF ~dirOK THEN "exit"
  ELSE IF n > 1 THEN "exit"
  ELSE IF n = 0 THEN "exit"
  ELSE "path"

\* Lines 232-235: banner, the firmware image is looked up, the terminal is
\* switched to non-blocking input and the loop of main begins.
Startup ==
  /\ pc = "start"
  /\ \E dirOK \in BOOLEAN, n \in IpswCounts :
       pc' = IF find_single_ipsw(dirOK, n) = "exit" THEN "exited" ELSE "find"
  /\ UNCHANGED << waitingShown, slept, stdin, open, inst, findVars, dfuVars, monVars, err,
                  unreported >>

\* -------------------------------------------------------------- FindDevice
NumQueryFail(cs) == Cardinality({ i \in DOMAIN cs : cs[i].bind = "queryFail" })

\* main line 238 and FindDevice lines 92-99: build the matching dictionary
\* and obtain the iterator; either call may fail and throw.
FindStart ==
  /\ pc = "find"
  /\ slept' = 0
  /\ \/ /\ \E what \in {"IOServiceMatching failed", "IOServiceGetMatchingServices failed"} :
             Escape(what)
        /\ UNCHANGED << waitingShown, stdin, findVars, dfuVars, monVars >>
     \/ /\ \E cs \in CandLists :
             /\ open + NumQueryFail(cs) <= MaxLeak
             /\ cands' = cs
        /\ idx' = 0
        /\ pc' = "fd_next"
        /\ UNCHANGED << waitingShown, stdin, open, inst, fdInst, dfuVars, monVars, err,
                        unreported >>

\* The filter as it would be without the test of line 113.
Eligible_AnyRid(c) == c.hasRid

Eligible(c) == c.hasRid /\ c.rid = 0

\* Lines 102-114: IOIteratorNext, then the RID property filter.
FindNext ==
  /\ pc = "fd_next"
  /\ IF idx = Len(cands)
       THEN /\ pc' = "fd_ret"           \* line 130: return nullptr
            /\ inst' = 0
            /\ idx' = idx
       ELSE /\ idx' = idx + 1
            /\ pc' = IF Eligible(cands[idx + 1]) THEN "fd_bind" ELSE "fd_next"
            /\ inst' = inst
  /\ UNCHANGED << waitingShown, slept, stdin, open, fdInst, cands, dfuVars, monVars, err,
                  unreported >>

\* Line 117 with the constructor, lines 43-54.  When QueryInterface fails the
\* constructor throws after the plug-in interface was created; the destructor
\* of an object whose constructor threw does not run.
FindBind ==
  /\ pc = "fd_bind"
  /\ LET b == cands[idx].bind IN
       /\ open' = IF b = "createFail" THEN open ELSE open + 1
       /\ fdInst' = IF b = "ok" THEN idx ELSE 0
       /\ pc' = IF b = "ok" THEN "fd_read" ELSE "fd_next"   \* catch (...) continue
       /\ unreported' = IF b = "ok" THEN unreported ELSE TRUE
  /\ UNCHANGED << waitingShown, slept, stdin, inst, cands, idx, dfuVars, monVars, err >>

\* Lines 118-128: read register 0x3f of the bound candidate and decide.
FindRead ==
  /\ pc = "fd_read"
  /\ IF cands[idx].st = "set"
       THEN /\ inst' = fdInst            \* line 125: return inst
            /\ open' = open
            /\ pc' = "fd_ret"
            \* lines 121-123: the path is printed when it can be obtained
            /\ \E pathOK \in BOOLEAN :
                 unreported' = IF pathOK THEN FALSE ELSE unreported
       ELSE /\ inst' = inst              \* continue, directly or from catch (...)
            /\ open' = open - 1          \* ~HPMPluginInstance at scope exit
            /\ pc' = "fd_next"
            /\ unreported' = IF cands[idx].st = "fail" THEN TRUE ELSE unreported
  /\ fdInst' = 0
  /\ UNCHANGED << waitingShown, slept, stdin, cands, idx, dfuVars, monVars, err >>

\* ------------------------------------------------------------------- main
\* Lines 239-249: nothing found -> sleep(1) and search again; otherwise the
\* session starts and EnterDFUMode is called.
AfterFind ==
  /\ pc = "fd_ret"
  /\ IF inst = 0
       THEN /\ waitingShown' = TRUE      \* lines 240-245: message once, sleep(1)
            /\ slept' = 1
            /\ pc' = "find"
       ELSE /\ waitingShown' = FALSE     \* lines 247-249
            /\ slept' = 0
            /\ pc' = "dfu_cmd"
  /\ unreported' = FALSE
  /\ cands' = <<>>
  /\ idx' = 0
  /\ UNCHANGED << stdin, open, inst, fdInst, dfuVars, monVars, err >>

\* ------------------------------------------------------------ EnterDFUMode
\* readRegister (lines 62-69): a nonzero Read status throws.
readThrows(st) == st # 0

\* mode.substr(0, 4) == "DBMa" (line 140).
IsDBMa(m) == SubSeq(m, 1, 4) = DBMaMagic

\* Lines 136-138: one handshake attempt issues command(0, 'DBMa').
DFUCommand ==
  /\ pc = "dfu_cmd"
  /\ \E cst \in Statuses, rst \in Statuses, b0 \in ResultBytes :
       LET r == command("DBMa", <<>>, 0, cst, IF cst = 0 THEN rst ELSE 0,
                        IF cst = 0 /\ rst = 0 THEN b0 ELSE 0) IN
         /\ lastCmd' = r
         /\ nDBMa' = nDBMa + r.cmds
         /\ nWrite9' = nWrite9 + r.writes
         /\ IF r.threw
              THEN Escape("readRegister failed")
              ELSE /\ pc' = "dfu_read"
                   /\ UNCHANGED << open, inst, err, unreported >>
  /\ UNCHANGED << waitingShown, slept, stdin, findVars, attempt, entered, mode, report,
                  nVDMs, nRead3, nRead4d, res, words, args, monVars >>

\* DFURead as it would be without the break of line 143.
DFURead_NoBreak ==
  /\ pc = "dfu_read"
  /\ nRead3' = nRead3 + 1
  /\ \E st \in Statuses :
       IF readThrows(st)
         THEN /\ Escape("readRegister failed")
              /\ UNCHANGED << attempt, entered, mode >>
         ELSE \E m \in Modes :
                /\ mode' = m
                /\ entered' = (entered \/ IsDBMa(m))
                /\ attempt' = attempt + 1
                /\ pc' = IF attempt + 1 < 10 THEN "dfu_cmd"
                         ELSE IF entered \/ IsDBMa(m) THEN "dfu_vdm" ELSE "dfu_fail"
                /\ UNCHANGED << open, inst, err, unreported >>
  /\ UNCHANGED << waitingShown, slept, stdin, findVars, report, lastCmd, nDBMa, nVDMs,
                  nWrite9, nRead4d, res, words, args, monVars >>

\* DFURead as it would be if a match also required the 'DBMa' command to
\* have returned 0.
DFURead_NeedsZeroCode ==
  /\ pc = "dfu_read"
  /\ nRead3' = nRead3 + 1
  /\ \E st \in Statuses :
       IF readThrows(st)
         THEN /\ Escape("readRegister failed")
              /\ UNCHANGED << attempt, entered, mode >>
         ELSE \E m \in Modes :
                /\ mode' = m
                /\ IF IsDBMa(m) /\ lastCmd.ret = 0
                     THEN /\ entered' = TRUE
                          /\ attempt' = attempt
                          /\ pc' = "dfu_vdm"
                     ELSE /\ entered' = entered
                          /\ attempt' = attempt + 1
                          /\ pc' = IF attempt + 1 < 10 THEN "dfu_cmd" ELSE "dfu_fail"
                /\ UNCHANGED << open, inst, err, unreported >>
  /\ UNCHANGED << waitingShown, slept, stdin, findVars, report, lastCmd, nDBMa, nVDMs,
                  nWrite9, nRead4d, res, words, args, monVars >>

\* Lines 139-147: read register 0x03, compare with the magic, then either
\* break, go round the loop, or leave the loop after the tenth attempt.
DFURead ==
  /\ pc = "dfu_read"
  /\ nRead3' = nRead3 + 1
  /\ \E st \in Statuses :
       IF readThrows(st)
         THEN /\ Escape("readRegister failed")
              /\ UNCHANGED << attempt, entered, mode >>
         ELSE \E m \in Modes :
                /\ mode' = m
                /\ IF IsDBMa(m)
                     THEN /\ entered' = TRUE
                          /\ attempt' = attempt
                          /\ pc' = "dfu_vdm"
                     ELSE /\ entered' = entered
                          /\ attempt' = attempt + 1
                          /\ pc' = IF attempt + 1 < 10 THEN "dfu_cmd" ELSE "dfu_fail"
                /\ UNCHANGED << open, inst, err, unreported >>
  /\ UNCHANGED << waitingShown, slept, stdin, findVars, report, lastCmd, nDBMa, nVDMs,
                  nWrite9, nRead4d, res, words, args, monVars >>

\* DFUFail as it would be without the return of line 151.
DFUFail_FallsThrough ==
  /\ pc = "dfu_fail"
  /\ nRead3' = nRead3 + 1
  /\ \E st \in Statuses :
       IF readThrows(st)
         THEN /\ Escape("readRegister failed")
              /\ UNCHANGED << report >>
         ELSE /\ \E m \in Modes : report' = m
              /\ pc' = "dfu_vdm"
              /\ UNCHANGED << open, inst, err, unreported >>
  /\ UNCHANGED << waitingShown, slept, stdin, findVars, attempt, entered, mode, lastCmd,
                  nDBMa, nVDMs, nWrite9, nRead4d, res, words, args, monVars >>

\* DFUFail as it would be if exhausting the handshake raised a failure
\* instead of returning.
DFUFail_Throws ==
  /\ pc = "dfu_fail"
  /\ nRead3' = nRead3 + 1
  /\ \E st \in Statuses :
       IF readThrows(st)
         THEN /\ Escape("readRegister failed")
              /\ UNCHANGED << report >>
         ELSE /\ \E m \in Modes : report' = m
              /\ Escape("Failed to enter DBMa mode")
  /\ UNCHANGED << waitingShown, slept, stdin, findVars, attempt, entered, mode, lastCmd,
                  nDBMa, nVDMs, nWrite9, nRead4d, res, words, args, monVars >>

\* Lines 147-152: not entered; register 0x03 is read once more for the
\* message and the function returns.
DFUFail ==
  /\ pc = "dfu_fail"
  /\ nRead3' = nRead3 + 1
  /\ \E st \in Statuses :
       IF readThrows(st)
         THEN /\ Escape("readRegister failed")
              /\ UNCHANGED << report >>
         ELSE /\ \E m \in Modes : report' = m
              /\ pc' = "dfu_done"
              /\ UNCHANGED << open, inst, err, unreported >>
  /\ UNCHANGED << waitingShown, slept, stdin, findVars, attempt, entered, mode, lastCmd,
                  nDBMa, nVDMs, nWrite9, nRead4d, res, words, args, monVars >>

\* DFUSendVDM as it would be if a code other than 0 made EnterDFUMode return
\* without reading the reply register.
DFUSendVDM_ReturnsOnFailure ==
  /\ pc = "dfu_vdm"
  /\ words' = dfu
  /\ args' = VDMArgs(dfu)
  /\ \E wst \in Statuses, cst \in Statuses, rst \in Statuses, b0 \in ResultBytes :
       LET r == command("VDMs", VDMArgs(dfu), wst, cst, IF cst = 0 THEN rst ELSE 0,
                        IF cst = 0 /\ rst = 0 THEN b0 ELSE 0) IN
         /\ lastCmd' = r
         /\ nVDMs' = nVDMs + r.cmds
         /\ nWrite9' = nWrite9 + r.writes
         /\ IF r.threw
              THEN /\ Escape("readRegister failed")
                   /\ res' = res
              ELSE /\ res' = r.ret
                   /\ pc' = IF r.ret = 0 THEN "dfu_reply" ELSE "dfu_done"
                   /\ UNCHANGED << open, inst, err, unreported >>
  /\ UNCHANGED << waitingShown, slept, stdin, findVars, attempt, entered, mode, report,
                  nDBMa, nRead3, nRead4d, monVars >>

\* Lines 154-160: encode the DFU request and issue command(0, 'VDMs', args).
DFUSendVDM ==
  /\ pc = "dfu_vdm"
  /\ words' = dfu
  /\ args' = VDMArgs(dfu)
  /\ \E wst \in Statuses, cst \in Statuses, rst \in Statuses, b0 \in ResultBytes :
       LET r == command("VDMs", VDMArgs(dfu), wst, cst, IF cst = 0 THEN rst ELSE 0,
                        IF cst = 0 /\ rst = 0 THEN b0 ELSE 0) IN
         /\ lastCmd' = r
         /\ nVDMs' = nVDMs + r.cmds
         /\ nWrite9' = nWrite9 + r.writes
         /\ IF r.threw
              THEN /\ Escape("readRegister failed")
                   /\ res' = res
              ELSE /\ res' = r.ret
                   /\ pc' = "dfu_reply"
                   /\ UNCHANGED << open, inst, err, unreported >>
  /\ UNCHANGED << waitingShown, slept, stdin, findVars, attempt, entered, mode, report,
                  nDBMa, nRead3, nRead4d, monVars >>

\* Lines 162-172: read the reply register 0x4d, print, return to main.
DFUReply ==
  /\ pc = "dfu_reply"
  /\ nRead4d' = nRead4d + 1
  /\ \E st \in Statuses :
       IF readThrows(st)
         THEN Escape("readRegister failed")
         ELSE /\ pc' = "dfu_done"
              /\ UNCHANGED << open, inst, err, unreported >>
  /\ UNCHANGED << waitingShown, slept, stdin, findVars, attempt, entered, mode, report,
                  lastCmd, nDBMa, nVDMs, nWrite9, nRead3, res, words, args, monVars >>

\* ------------------------------------------------------------- monitoring
\* Lines 249-251: EnterDFUMode has returned, its frame is gone; main prints
\* the monitoring banner and clears restore_requested.  The counts of what
\* the session has sent to the transport stay.
MonStart ==
  /\ pc = "dfu_done"
  /\ pc' = "mon_poll"
  /\ attempt' = 0
  /\ entered' = FALSE
  /\ mode' = NoMode
  /\ report' = NoMode
  /\ lastCmd' = NoCmd
  /\ res' = 0
  /\ words' = <<>>
  /\ args' = <<>>
  /\ restore_requested' = FALSE
  /\ UNCHANGED << waitingShown, slept, stdin, open, inst, findVars, nDBMa, nVDMs, nWrite9,
                  nRead3, nRead4d, status, nRestore, cause, rret, err, unreported >>

\* What a read of register 0x3f yields: bit 0 set, bit 0 clear, or a throw.
Polls == {"set", "clear", "fail"}

\* MonPoll as it would be if a clear bit 0 did not leave the loop.
MonPoll_NoBreak ==
  /\ pc = "mon_poll"
  /\ \E st \in Polls :
       /\ status' = st
       /\ pc' = IF st = "fail" THEN "end" ELSE "mon_key"
       /\ unreported' = IF st = "fail" THEN TRUE ELSE unreported
  /\ UNCHANGED << waitingShown, slept, stdin, open, inst, findVars, dfuVars,
                  restore_requested, nRestore, cause, rret, err >>

\* Lines 254-259: the status poll of the monitoring loop.
MonPoll ==
  /\ pc = "mon_poll"
  /\ \E st \in Polls :
       /\ status' = st
       /\ pc' = IF st = "set" THEN "mon_key" ELSE "end"
       /\ unreported' = IF st = "fail" THEN TRUE ELSE unreported
  /\ UNCHANGED << waitingShown, slept, stdin, open, inst, findVars, dfuVars,
                  restore_requested, nRestore, cause, rret, err >>

\* Lines 261-267: the non-blocking read of one character.
MonKey ==
  /\ pc = "mon_key"
  /\ IF stdin = <<>>
       THEN /\ pc' = "mon_poll"
            /\ UNCHANGED << stdin, restore_requested, cause >>
       ELSE /\ stdin' = Tail(stdin)
            /\ IF Head(stdin).ch \in {"r", "R"}
                 THEN /\ restore_requested' = TRUE
                      /\ cause' = Head(stdin)
                      /\ pc' = "restore"
                 ELSE /\ pc' = "mon_poll"
                      /\ UNCHANGED << restore_requested, cause >>
  /\ UNCHANGED << waitingShown, slept, open, inst, findVars, dfuVars, status, nRestore,
                  rret, err, unreported >>

\* Lines 269-271 with run_restore, lines 174-184.
Restore ==
  /\ pc = "restore"
  /\ restore_requested
  /\ \E ret \in RunResults :
       /\ rret' = ret
       /\ nRestore' = nRestore + 1
       /\ pc' = "wait_poll"
  /\ UNCHANGED << waitingShown, slept, stdin, open, inst, findVars, dfuVars, status,
                  restore_requested, cause, err, unreported >>

\* WaitPoll as it would be if the wait loop repeated the key check of the
\* monitoring loop.
WaitPoll_ChecksKey ==
  /\ pc = "wait_poll"
  /\ \E st \in Polls :
       /\ status' = st
       /\ unreported' = IF st = "fail" THEN TRUE ELSE unreported
       /\ IF st # "set"
            THEN pc' = "end" /\ stdin' = stdin
            ELSE IF stdin = <<>>
              THEN pc' = "wait_poll" /\ stdin' = stdin
              ELSE /\ stdin' = Tail(stdin)
                   /\ pc' = IF Head(stdin).ch \in {"r", "R"} THEN "restore" ELSE "wait_poll"
  /\ UNCHANGED << waitingShown, slept, open, inst, findVars, dfuVars,
                  restore_requested, nRestore, cause, rret, err >>

\* WaitPoll as it would be if the wait gave up after one more poll of a
\* device that still reports connected.
WaitPoll_Timeout ==
  /\ pc = "wait_poll"
  /\ \E st \in Polls :
       /\ status' = st
       /\ pc' = "end"
       /\ unreported' = IF st = "fail" THEN TRUE ELSE unreported
  /\ UNCHANGED << waitingShown, slept, stdin, open, inst, findVars, dfuVars,
                  restore_requested, nRestore, cause, rret, err >>

\* Lines 273-281: the disconnect-only wait after a restore.
WaitPoll ==
  /\ pc = "wait_poll"
  /\ \E st \in Polls :
       /\ status' = st
       /\ pc' = IF st = "set" THEN "wait_poll" ELSE "end"
       /\ unreported' = IF st = "fail" THEN TRUE ELSE unreported
  /\ UNCHANGED << waitingShown, slept, stdin, open, inst, findVars, dfuVars,
                  restore_requested, nRestore, cause, rret, err >>

\* Lines 282-286 and the end of the try block: the message is printed, inst
\* goes out of scope and the loop of main starts over.
SessionEnd ==
  /\ pc = "end"
  /\ pc' = "find"
  /\ open' = open - 1
  /\ inst' = 0
  /\ slept' = 0
  /\ unreported' = FALSE
  /\ ResetSession
  /\ UNCHANGED << waitingShown, stdin, findVars, err >>

\* Catch as it would be if the handler gave up and ended the process.
Catch_Exits ==
  /\ pc = "catch"
  /\ pc' = "exited"
  /\ err' = "none"
  /\ slept' = 0
  /\ unreported' = FALSE
  /\ ResetSession
  /\ UNCHANGED << waitingShown, stdin, open, inst, findVars >>

\* Lines 287-290: the handler prints e.what() and sleeps two seconds.
Catch ==
  /\ pc = "catch"
  /\ pc' = "find"
  /\ err' = "none"
  /\ slept' = 2
  /\ unreported' = FALSE
  /\ ResetSession
  /\ UNCHANGED << waitingShown, stdin, open, inst, findVars >>

Next ==
  \/ Startup
  \/ KeyPress
  \/ FindStart
  \/ FindNext
  \/ FindBind
  \/ FindRead
  \/ AfterFind
  \/ DFUCommand
  \/ DFURead
  \/ DFUFail
  \/ DFUSendVDM
  \/ DFUReply
  \/ MonStart
  \/ MonPoll
  \/ MonKey
  \/ Restore
  \/ WaitPoll
  \/ SessionEnd
  \/ Catch

Spec == Init /\ [][Next]_vars

\* The program is sequential and every call it makes returns: whenever it has
\* a next statement it executes it.  Typing is up to the user.
ProgramStep ==
  \/ Startup
  \/ FindStart
  \/ FindNext
  \/ FindBind
  \/ FindRead
  \/ AfterFind
  \/ DFUCommand
  \/ DFURead
  \/ DFUFail
  \/ DFUSendVDM
  \/ DFUReply
  \/ MonStart
  \/ MonPoll
  \/ MonKey
  \/ Restore
  \/ WaitPoll
  \/ SessionEnd
  \/ Catch

FairSpec == Spec /\ WF_vars(ProgramStep)

\* FairSpec under the assumption that a device does not stay connected for
\* ever: polls of register 0x3f repeated for ever eventually find bit 0 clear
\* or fail.
LiveSpec ==
  /\ FairSpec
  /\ SF_vars(MonPoll /\ status' # "set")
  /\ SF_vars(WaitPoll /\ status' # "set")

TypeOK ==
  /\ pc \in {"start", "exited", "find", "fd_next", "fd_bind", "fd_read", "fd_ret", "dfu_cmd", "dfu_read",
             "dfu_fail", "dfu_vdm", "dfu_reply", "dfu_done", "mon_poll", "mon_key", "restore",
             "wait_poll", "end", "catch"}
  /\ open \in 0..(MaxLeak + 1)
  /\ attempt \in 0..10
  /\ Len(stdin) <= MaxInput

\* --------------------------------------------- the encoder on any message
\* Words the encoder is tried on, and every word count a 4-bit field holds.
SampleWords == << W(0, 0), W(65535, 65535), W(1452, 32786), W(32769, 0), W(0, 262),
                 W(258, 772) >>
Lengths == 1..15

EncInputs ==
  {dfu} \cup
  { [i \in 1..L |-> SampleWords[((i + r) % Len(SampleWords)) + 1]] :
      L \in Lengths, r \in 0..(Len(SampleWords) - 1) }

\* Lines 155-157 applied to a message: header byte, then every word.
Encode ==
  /\ pc = "start"
  /\ words # <<>>
  /\ args = <<>>
  /\ args' = VDMArgs(words)
  /\ UNCHANGED << pc, waitingShown, stdin, open, inst, findVars, attempt, entered, mode,
                  report, lastCmd, nDBMa, nVDMs, nWrite9, nRead3, nRead4d, res, words,
                  monVars, err, slept, unreported >>

InitEnc == InitBase /\ words \in EncInputs

EncSpec == InitEnc /\ [][Encode]_vars

\* ------------------------------------------- the command channel on its own
Bytes == 0..255

\* One call of command with any arguments and any answers of the transport.
CallCommand ==
  /\ pc = "start"
  /\ lastCmd = NoCmd
  /\ \E cmd \in {"DBMa", "VDMs"}, a \in {<<>>, VDMArgs(dfu)},
        wst \in Statuses, cst \in Statuses, rst \in Statuses, b0 \in Bytes :
       lastCmd' = command(cmd, a, wst, cst, rst, b0)
  /\ UNCHANGED << pc, waitingShown, stdin, open, inst, findVars, attempt, entered, mode,
                  report, nDBMa, nVDMs, nWrite9, nRead3, nRead4d, res, words, args,
                  monVars, err, slept, unreported >>

CmdSpec == Init /\ [][CallCommand]_vars

\* ================================================================== claims
DfuPcs == {"dfu_cmd", "dfu_read", "dfu_fail", "dfu_vdm", "dfu_reply", "dfu_done"}

\* C1: when all ten attempts of EnterDFUMode have read a mode register that
\* does not begin with "DBMa", the sequencer is Failed (entered is false and
\* control is in, or past, the failure branch of line 147) and the call has
\* issued no 'VDMs' command and written nothing to register 0x09.
C1_ExhaustedNeverSendsVDM ==
  attempt = 10 =>
    /\ ~entered
    /\ pc \in {"dfu_fail", "dfu_done", "catch"}
    /\ nDBMa = 10
    /\ nVDMs = 0
    /\ nWrite9 = 0

\* C1 witness: EnterDFUMode has returned after ten mismatching attempts.
C1_Witness ==
  (pc = "dfu_done" /\ attempt = 10 /\ ~entered /\ report # NoMode /\ ~IsDBMa(mode))

\* C2: when attempt k (the loop variable is k - 1) is the first whose mode
\* read begins with "DBMa", exactly k 'DBMa' commands have been issued, as
\* many as mode reads, none is issued afterwards, and the 'VDMs' command is
\* issued exactly once after the match.
C2_MatchAtKSendsKThenOneVDM ==
  entered =>
    /\ attempt \in 0..9
    /\ nDBMa = attempt + 1
    /\ nDBMa = nRead3
    /\ pc \in {"dfu_vdm", "dfu_reply", "dfu_done", "catch"}
    /\ nVDMs = (IF pc = "dfu_vdm" THEN 0 ELSE 1)

\* C2 witness: the tenth attempt was the first to match and the call returned.
C2_Witness ==
  (pc = "dfu_done" /\ entered /\ attempt = 9 /\ nDBMa = 10 /\ nVDMs = 1)

\* C3: a status poll of the monitoring loop that finds bit 0 clear, or whose
\* read fails, ends the loop at that poll with restore_requested false,
\* takes nothing from stdin, and the session then ends without run_restore
\* having been called.
C3_DisconnectEndsWithoutRestore ==
  /\ [](pc = "end" /\ ~restore_requested => nRestore = 0 /\ status \in {"clear", "fail"})
  /\ [][ /\ (pc = "mon_poll" /\ pc' # "mon_poll" /\ status' # "set"
               => pc' = "end" /\ ~restore_requested' /\ nRestore' = 0 /\ stdin' = stdin)
         /\ (pc = "mon_poll" /\ pc' = "mon_key" => status' = "set")
         /\ (pc = "end" /\ pc' # "end" => pc' = "find" /\ nRestore' = 0) ]_vars

\* C3 witness: the monitoring loop ended on a clear bit 0 with an 'r' pending.
C3_Witness ==
  (pc = "end" /\ ~restore_requested /\ status = "clear" /\ nRestore = 0
      /\ stdin # <<>> /\ Head(stdin).ch = "r")

\* a is an initial segment of b.
IsPrefix(a, b) == Len(a) <= Len(b) /\ SubSeq(b, 1, Len(a)) = a

\* C4: an 'r' or 'R' read by the monitoring loop sets restore_requested and
\* leads to exactly one call of run_restore, then to the wait loop; from then
\* on nothing is taken from stdin and run_restore is not called again in the
\* session.
C4_OneRestorePerSession ==
  /\ [](/\ nRestore \in {0, 1}
        /\ (pc = "restore" => restore_requested /\ nRestore = 0 /\ cause.ch \in {"r", "R"})
        /\ (pc = "wait_poll" => restore_requested /\ nRestore = 1)
        /\ (restore_requested => pc \in {"restore", "wait_poll", "end"})
        /\ (nRestore = 1 => restore_requested))
  /\ [][ /\ (pc = "mon_key" /\ pc' # "mon_key" /\ stdin # <<>>
               => IF Head(stdin).ch \in {"r", "R"}
                    THEN pc' = "restore" /\ restore_requested'
                    ELSE pc' = "mon_poll" /\ ~restore_requested')
         /\ (pc = "restore" /\ pc' # "restore" => pc' = "wait_poll" /\ nRestore' = 1)
         /\ (restore_requested => IsPrefix(stdin, stdin')) ]_vars

\* C4 witness: the wait loop after the one restore, with a further 'r' typed
\* after the restore was requested still unread.
C4_Witness ==
  (pc = "wait_poll" /\ nRestore = 1 /\ status = "set"
      /\ stdin # <<>> /\ Head(stdin).ch = "r" /\ ~Head(stdin).live)

\* C5: every call of run_restore is due to an 'r' or 'R' typed while a device
\* was held by the current session; a key typed while no device is held, or
\* after a restore was requested, never causes one.
C5_RestoreOnlyFromLiveInput ==
  pc = "restore" => cause.live

\* What the device locator is to return for an enumeration: the index of
\* the first candidate that qualifies, 0 when none does.
Qualifies(c) == c.hasRid /\ c.rid = 0 /\ c.bind = "ok" /\ c.st = "set"

FirstQualifying(cs) ==
  LET Q == { i \in DOMAIN cs : Qualifies(cs[i]) }
  IN  IF Q = {} THEN 0 ELSE CHOOSE i \in Q : \A j \in Q : i <= j

\* C6: FindDevice returns the first candidate in enumeration order that has
\* RID = 0, binds, and reads register 0x3f with bit 0 set, having examined no
\* later candidate; it returns nullptr, without error, when there is none.
\* A candidate without RID or with a nonzero RID is never returned.
C6_FirstQualifyingSelected ==
  pc = "fd_ret" =>
    /\ inst = FirstQualifying(cands)
    /\ idx = (IF inst # 0 THEN inst ELSE Len(cands))
    /\ (inst # 0 => cands[inst].hasRid /\ cands[inst].rid = 0 /\ cands[inst].st = "set")
    /\ fdInst = 0
    /\ err = "none"

\* C6 witness: the first of two qualifying candidates was returned and the
\* second was not examined.
C6_Witness ==
  (pc = "fd_ret" /\ inst = 1 /\ idx = 1 /\ Len(cands) = 2 /\ Qualifies(cands[2]))

\* C7: when command is given arguments and the write of them to register
\* 0x09 fails, the call throws and the transport command is not issued.
C7_WriteFailureAborts ==
  (lastCmd.hasArgs /\ lastCmd.wst # 0) => (lastCmd.threw /\ lastCmd.cmds = 0)

\* C8: when Command returns a nonzero status, command returns -1 without
\* throwing and without reading register 0x09.
C8_CommandFailureReturnsSentinel ==
  (lastCmd.cmds = 1 /\ lastCmd.cst # 0) =>
    /\ ~lastCmd.threw
    /\ lastCmd.ret = -1
    /\ lastCmd.reads = 0
    /\ (pc = "dfu_reply" => res = -1)

\* C8 witness: the 'VDMs' command failed in the transport and EnterDFUMode
\* holds the sentinel.
C8_Witness ==
  (pc = "dfu_reply" /\ lastCmd.cmd = "VDMs" /\ lastCmd.cst # 0 /\ res = -1)

\* C9: at most one plug-in interface is open at any time, and none is open
\* when FindDevice is called.
C9_AtMostOneHandle ==
  /\ open <= 1
  /\ (pc = "find" => open = 0)

\* C10 as claimed: whenever control leaves EnterDFUMode, it enters the
\* monitoring loop with the same device.
C10_AlwaysMonitors ==
  [][ (pc \in DfuPcs /\ pc' \notin DfuPcs) => (pc' = "mon_poll" /\ inst' = inst) ]_vars

\* C10 amended: when EnterDFUMode returns, Entered or Failed, main enters the
\* monitoring loop with the same, still open, device; control leaves
\* EnterDFUMode otherwise only by a failed register read, whose exception
\* reaches the handler of main with the device released.
C10_MonitorsUnlessReadThrows ==
  [][ /\ (pc \in DfuPcs /\ pc' \notin DfuPcs =>
            \/ pc = "dfu_done" /\ pc' = "mon_poll" /\ inst' = inst /\ inst # 0 /\ open' = open
            \/ pc # "dfu_done" /\ pc' = "catch" /\ err' = "readRegister failed" /\ inst' = 0)
      /\ (pc = "dfu_fail" /\ pc' # "dfu_fail" => pc' \in {"dfu_done", "catch"})
      /\ (pc = "dfu_reply" /\ pc' # "dfu_reply" => pc' \in {"dfu_done", "catch"}) ]_vars

\* C10 witness: the monitoring loop was entered after the handshake was
\* exhausted.
C10_Witness ==
  (pc = "mon_poll" /\ inst # 0 /\ nDBMa = 10 /\ nVDMs = 0 /\ nRead3 = 11 /\ status = "none")

\* A TransportFailure or CommandFailure has just occurred: an exception is on
\* its way to a handler or was caught, or command returned the sentinel.
Failure ==
  \/ pc = "catch"
  \/ unreported
  \/ (lastCmd.cmds = 1 /\ (lastCmd.threw \/ lastCmd.ret = -1))

\* The session is in one of its two polling loops.
Polling == pc \in {"mon_poll", "mon_key", "wait_poll"}

\* C11 as claimed: only the startup configuration check ends the process, and
\* after every transport or command failure FindDevice is called again.
C11_FailureReachesFindDevice ==
  /\ [][pc' = "exited" => pc \in {"start", "exited"}]_vars
  /\ (Failure ~> (pc = "find"))

\* C11 amended: only the startup configuration check ends the process; after
\* a transport or command failure FindDevice is called again, unless from
\* some point on a session polls for ever a device that stays connected.
C11_NeverTerminates ==
  /\ [][pc' = "exited" => pc \in {"start", "exited"}]_vars
  /\ \/ <>[]Polling
     \/ (Failure ~> (pc = "find"))

\* C11 witness: main is about to call FindDevice again after the two-second
\* backoff of its handler.
C11_Witness ==
  pc = "find" /\ slept = 2 /\ err = "none"

\* A candidate already dealt with by this call of FindDevice bound and then
\* failed the read of register 0x3f.
ReadFailedInSearch ==
  \E i \in 1..idx :
    /\ Eligible(cands[i]) /\ cands[i].bind = "ok" /\ cands[i].st = "fail"
    /\ (i < idx \/ pc \in {"fd_next", "fd_ret"})

\* C12: a failed register read on a candidate abandons the search attempt:
\* the exception reaches the handler of main (two-second backoff) and no
\* device is selected; FindDevice neither goes on nor returns after it.
C12_SearchFailureAbandonsAttempt ==
  ReadFailedInSearch => (pc = "catch" /\ inst = 0)

\* C13: an error that has been caught and not yet followed by a message is
\* only ever found on the way to the statement that prints (the handler of
\* main, or the message after the polling loops); processing does not go on
\* without a message.
C13_NoSilentCatch ==
  unreported => pc \in {"catch", "end"}

\* C14: for a message of L words, 1 <= L <= 15, the encoded bytes are 1 + 4 L
\* long, byte 0 is (3 << 4) | L with low nibble L, and every word follows in
\* order, least significant byte first; the DFU request encodes to the 13
\* bytes 33 12 80 ac 05 06 01 00 00 00 00 01 80.
C14_VDMEncoding ==
  args # <<>> =>
    LET L == Len(words) IN
      /\ Len(args) = 1 + 4 * L
      /\ args[1] = 3 * 16 + L
      /\ args[1] % 16 = L
      /\ \A i \in 1..Len(args) : args[i] \in 0..255
      /\ \A i \in 1..L :
           /\ args[4 * i - 2] + 256 * args[4 * i - 1] = words[i].lo
           /\ args[4 * i] + 256 * args[4 * i + 1] = words[i].hi
      /\ (words = dfu => args = <<51, 18, 128, 172, 5, 6, 1, 0, 0, 0, 0, 1, 128>>)

\* C14 witness: a message of fifteen words has been encoded.
C14_Witness ==
  Len(words) = 15 /\ Len(args) = 61 /\ args[1] = 63

\* C15: when Command succeeds and the call returns, the code returned is the
\* low nibble of byte 0 of register 0x09, a value in 0..15 and so never -1;
\* -1 is returned exactly when Command reported failure.
C15_ReturnsLowNibble ==
  (lastCmd.cmds = 1 /\ ~lastCmd.threw) =>
    /\ (lastCmd.ret = -1) <=> (lastCmd.cst # 0)
    /\ (lastCmd.cst = 0 =>
          /\ lastCmd.ret \in 0..15
          /\ \E hi \in 0..15 : lastCmd.b0 = 16 * hi + lastCmd.ret
          /\ (lastCmd.b0 = 7 => lastCmd.ret = 7))

\* C15 witness: byte 0 was 0xf7 and the call returned 7.
C15_Witness ==
  lastCmd.cmds = 1 /\ lastCmd.cst = 0 /\ ~lastCmd.threw /\ lastCmd.b0 = 247 /\ lastCmd.ret = 7

\* C16: a call of command that succeeds reads register 0x09 once and nothing
\* else, writes register 0x09 once when it has arguments and nothing
\* otherwise, and issues the command once.
C16_OneReadAtMostOneWrite ==
  (lastCmd.cmds >= 1 /\ lastCmd.cst = 0 /\ lastCmd.rst = 0) =>
    /\ ~lastCmd.threw
    /\ lastCmd.cmds = 1
    /\ lastCmd.rregs = <<9>>
    /\ lastCmd.reads = 1
    /\ lastCmd.wregs = (IF lastCmd.hasArgs THEN <<9>> ELSE <<>>)
    /\ lastCmd.writes = Len(lastCmd.wregs)

\* C16 witness: a successful call without arguments, which wrote nothing.
C16_Witness ==
  /\ lastCmd.cmd = "DBMa" /\ ~lastCmd.hasArgs /\ lastCmd.cst = 0 /\ lastCmd.rst = 0
  /\ lastCmd.wregs = <<>> /\ lastCmd.rregs = <<9>>

\* C17: after a restore is requested the wait loop is entered whatever
\* run_restore returned; the wait loop is left only by a poll of 0x3f that
\* finds bit 0 clear or fails; and, when polls of a device cannot report it
\* connected for ever, every session ends and FindDevice is called again.
C17_WaitLoopThenSearch ==
  /\ [][(pc = "restore" /\ pc' # "restore") => (pc' = "wait_poll" /\ rret' \in RunResults)]_vars
  /\ [][(pc = "wait_poll" /\ pc' # "wait_poll")
          => (pc' = "end" /\ status' \in {"clear", "fail"})]_vars
  /\ [][(pc = "wait_poll" /\ status' = "set") => pc' = "wait_poll"]_vars
  /\ ((inst # 0) ~> (pc = "find"))

\* C17 witness: the restore failed, the wait loop was entered all the same
\* and was left because a status read failed.
C17_Witness ==
  pc = "end" /\ restore_requested /\ rret = 256 /\ nRestore = 1 /\ status = "fail"

\* C18: once the handshake matched, register 0x4d is read exactly once, after
\* the 'VDMs' command returned and whatever code it returned.
C18_ReplyReadOnce ==
  /\ [](pc \in {"dfu_cmd", "dfu_read", "dfu_fail", "dfu_vdm", "dfu_reply"} => nRead4d = 0)
  /\ []((pc = "dfu_done" /\ entered) => (nRead4d = 1 /\ nVDMs = 1))
  /\ [](nRead4d <= 1)
  /\ [][(pc = "dfu_vdm" /\ pc' \notin {"dfu_vdm", "catch"})
          => (pc' = "dfu_reply" /\ res' = lastCmd'.ret)]_vars
  /\ [][(pc = "dfu_reply" /\ pc' # "dfu_reply") => nRead4d' = 1]_vars

\* C18 witness: the 'VDMs' command returned the sentinel and the reply
\* register was read.
C18_Witness ==
  pc = "dfu_done" /\ entered /\ res = -1 /\ nRead4d = 1

\* C19: when EnterDFUMode ends without a match, the bytes it reports are the
\* bytes the tenth attempt read and compared, register 0x03 was read ten
\* times, and the reported bytes do not begin with "DBMa".
C19_FailedReportsTenthRead ==
  (pc = "dfu_done" /\ ~entered) =>
    (report = mode /\ nRead3 = 10 /\ ~IsDBMa(report))

\* Phases of a session after EnterDFUMode has returned.
MonPcs == {"mon_poll", "mon_key", "restore", "wait_poll", "end"}

\* C20: EnterDFUMode is called once per handle, straight after FindDevice
\* returned it and before the first status poll; no 'DBMa' or 'VDMs' command
\* is issued while monitoring or waiting; and the handshake matches exactly
\* when the mode register read begins with "DBMa", whatever the command
\* returned.
C20_SessionOrder ==
  /\ [][(pc' = "dfu_cmd" /\ pc \notin {"dfu_cmd", "dfu_read"})
          => (pc = "fd_ret" /\ inst # 0 /\ nDBMa' = 0 /\ attempt' = 0)]_vars
  /\ [][(pc' \in DfuPcs /\ pc \notin DfuPcs) => pc' = "dfu_cmd"]_vars
  /\ [][(pc' \in MonPcs /\ pc \notin MonPcs) => (pc = "dfu_done" /\ pc' = "mon_poll")]_vars
  /\ [][(pc \in MonPcs) => (pc' \in MonPcs \cup {"find"})]_vars
  /\ [][(pc \in MonPcs /\ pc' \in MonPcs) => (nDBMa' = nDBMa /\ nVDMs' = nVDMs)]_vars
  /\ [](pc \in MonPcs => (inst # 0 /\ nDBMa \in 1..10 /\ nVDMs <= 1))
  /\ [][(pc = "dfu_read" /\ pc' \notin {"dfu_read", "catch"})
          => /\ entered' <=> IsDBMa(mode')
             /\ (pc' = "dfu_vdm") <=> IsDBMa(mode')]_vars

\* C20 witness: the 'DBMa' command returned the sentinel and the handshake
\* matched on the mode register all the same.
C20_Witness ==
  pc = "dfu_vdm" /\ entered /\ lastCmd.cmd = "DBMa" /\ lastCmd.ret = -1 /\ IsDBMa(mode)

====
